---- MODULE Spec2Model ----
(***************************************************************************)
(* Model of teide-bench: the cross-engine benchmark driver (bench_all.py)  *)
(* and the dataset generators (gen/generate_data.py, gen/generate_join.py).*)
(*                                                                         *)
(* Durations are kept in integer microseconds (the code keeps fractional   *)
(* milliseconds: ms = us / 1000).  A missing dictionary entry (Python's    *)
(* None) is the value None == -1; every real duration is >= 0.             *)
(***************************************************************************)
EXTENDS Integers, Sequences, FiniteSets, TLC

VARIABLES
    mode,        \* which program runs: "bench", "median" or "gen"
    \* ---- bench_all.py : environment
    exists,      \* dataset path -> does the file exist
    tick,        \* resolution of time.perf_counter, in microseconds
    now,         \* true elapsed time since start, in microseconds
    \* ---- bench_all.py : control
    pc,          \* position in __main__ / the running bench function
    engine,      \* engine whose bench function is running
    qi,          \* index in QUERIES of the query being run
    phase,       \* "warm" or "measure"
    i,           \* loop counter of the current for loop
    times,       \* the local list `times`
    ms,          \* the local `ms`
    res,         \* the local dict `res` of the running bench function
    results,     \* the module-level dict `results`
    started,     \* engines whose bench function has been entered, in order
    failedEngine,\* engine whose bench function raised, or "none"
    reported,    \* path printed by "Dataset not found", or "none"
    exitStatus,  \* process exit status, None while running
    summary,     \* rendered summary rows, <<>> until printed
    saved,       \* content of results.json, NoFile until written
    callLog,     \* history: the calls of the current query, [phase, dur]
    \* ---- bench_all.py : native (Teide) handles
    tables,      \* table handle -> [loaded, releases]
    graph,       \* the graph g: [live, refs, news, frees]
    root,        \* the local `root`: "none", "built", "optimized", "null"
    r,           \* the local `r`, last value returned by execute
    outstanding, \* owned result handles returned and not yet released
    nOwnedExec,  \* executes on the current graph that returned an owned handle
    nRelease,    \* release calls on results of the current graph
    badRelease,  \* release calls on a null / sentinel / not-outstanding handle
    sym,         \* symbol table state: "uninit", "init", "destroyed"
    arena,       \* arena state: "uninit", "init", "destroyed"
    raising,     \* an exception is propagating through the finally block
    failed,      \* execute/optimize signalled failure in the current query
    failSampled, \* a timing sample was recorded for a failed execute
    nativeLog,   \* history: process-wide, table and graph calls, in order
    opLog,       \* history: the calls made on the current graph g, in order
    \* ---- median as a pure function
    lst,         \* argument of median
    medOut,      \* result of median, None before the call
    \* ---- dataset generators
    rng,         \* state of the module-level random generator
    fs,          \* file system: path -> content (a directory is "dir")
    genLog,      \* history: generator calls [fn, args, out]
    gpc,         \* position of the generator process
    argv,        \* command line of generate_data.py main()
    fsOrder      \* history: paths in order of creation by the last call

benchVars == <<exists, tick, now, pc, engine, qi, phase, i, times, ms, res,
               results, started, failedEngine, reported, exitStatus, summary,
               saved, callLog>>
nativeVars == <<tables, graph, root, r, outstanding, nOwnedExec, nRelease,
                badRelease, sym, arena, raising, failed, failSampled,
                nativeLog, opLog>>
medianVars == <<lst, medOut>>
genVars == <<rng, fs, genLog, gpc, argv, fsOrder>>
vars == <<mode, benchVars, nativeVars, medianVars, genVars>>

None == -1

(***************************************************************************)
(* bench_all.py : constants                                                *)
(***************************************************************************)
N_ITER == 7
N_ITER_JOIN == 5
N_WARMUP == 3
OwnedThreshold == 32

DatasetPaths == <<"CSV_GROUPBY", "CSV_JOIN_X", "CSV_JOIN_Y">>
QUERIES == <<"q1", "q2", "q3", "q5", "q7", "s1", "s6", "j1">>
TableHandles == {"tbl", "x", "y"}

QueryKind(q) ==
    CASE q \in {"q1", "q2", "q3", "q5", "q7"} -> "groupby"
      [] q \in {"s1", "s6"} -> "sort"
      [] OTHER -> "join"

\* variant: the join is run with the default n_iter
NIter_Default(q) == N_ITER

\* n_iter of the call that runs query q
NIter(q) == IF QueryKind(q) = "join" THEN N_ITER_JOIN ELSE N_ITER

(***************************************************************************)
(* bench_all.py : pure helpers                                             *)
(***************************************************************************)
\* s = sorted(lst); return s[len(s) // 2]     (0-based index)
median(l) ==
    LET s == SortSeq(l, LAMBDA a, b : a < b)
    IN  s[(Len(s) \div 2) + 1]

\* round(n / d) to the nearest integer, ties to even (Python's format())
RoundDiv(n, d) ==
    LET q == n \div d
        rem == n % d
    IN  IF 2 * rem < d THEN q
        ELSE IF 2 * rem > d THEN q + 1
        ELSE IF q % 2 = 0 THEN q ELSE q + 1

\* fmt(ms) with ms = us / 1000: the rendered text as [unit, digits]
fmt(us) ==
    IF us < 1000 THEN [unit |-> "us", val |-> us]
    ELSE IF us < 1000000 THEN [unit |-> "ms", val |-> RoundDiv(us, 100)]
    ELSE [unit |-> "s", val |-> RoundDiv(us, 10000)]

NA == [unit |-> "N/A", val |-> 0]

\* `x if x else ...`: Python truthiness of an optional number
Truthy(v) == v # None /\ v # 0

\* fmt(t) if t else 'N/A'
RenderCell(v) == IF Truthy(v) THEN fmt(v) ELSE NA

\* results.get(e, {}).get(key)
Get(rs, e, key) ==
    IF e \in DOMAIN rs
    THEN (IF key \in DOMAIN rs[e] THEN rs[e][key] ELSE None)
    ELSE None

\* d[key] = v
Put(d, key, v) ==
    [k \in (DOMAIN d) \cup {key} |-> IF k = key THEN v ELSE d[k]]

EmptyDict == [k \in {} |-> None]

\* results.json before it is written
NoFile == [written |-> FALSE, content |-> EmptyDict]

\* variant: `r > 32`
ShouldRelease_Above(h) == h # 0 /\ h > OwnedThreshold

\* if r and r >= 32
ShouldRelease(h) == h # 0 /\ h >= OwnedThreshold

(***************************************************************************)
(* Environment of bench_all.py: the clock and the cost of one call         *)
(***************************************************************************)
\* resolutions of time.perf_counter: 1 us, and a coarse 16 ms tick
Ticks == {1, 16000}

\* time.perf_counter() read at true time t
PerfCounter(t) == (t \div tick) * tick

\* true cost in microseconds of call number n (1-based) of query q on engine e
Cost(e, q, n) ==
    LET base == CASE QueryKind(q) = "groupby" -> 400
                  [] QueryKind(q) = "sort" -> 250000
                  [] OTHER -> 2000000
        skew == CASE e = "duckdb" -> 70 [] e = "polars" -> 35 [] OTHER -> 0
        cold == IF n <= 3 THEN 1000 * (4 - n) ELSE 0
        jitter == ((n * 5) % 7) * 30
    IN  base + skew + cold + jitter

\* values lib.execute can return: null, a sentinel, the threshold, a heap handle
ExecReturns == {0, 5, 32, 40}

(***************************************************************************)
(* Idle values of the variables a specification does not use               *)
(***************************************************************************)
NativeIdle ==
    /\ tables = [t \in TableHandles |-> [loaded |-> FALSE, releases |-> 0]]
    /\ graph = [live |-> FALSE, refs |-> {}, news |-> 0, frees |-> 0]
    /\ root = "none"
    /\ r = 0
    /\ outstanding = {}
    /\ nOwnedExec = 0
    /\ nRelease = 0
    /\ badRelease = 0
    /\ sym = "uninit"
    /\ arena = "uninit"
    /\ raising = FALSE
    /\ failed = FALSE
    /\ failSampled = FALSE
    /\ nativeLog = <<>>
    /\ opLog = <<>>

BenchIdle ==
    /\ now = 0
    /\ pc = "check"
    /\ engine = "none"
    /\ qi = 1
    /\ phase = "warm"
    /\ i = 0
    /\ times = <<>>
    /\ ms = None
    /\ res = EmptyDict
    /\ results = EmptyDict
    /\ started = <<>>
    /\ failedEngine = "none"
    /\ reported = "none"
    /\ exitStatus = None
    /\ summary = <<>>
    /\ saved = NoFile
    /\ callLog = <<>>

MedianIdle == lst = <<>> /\ medOut = None

GenIdle ==
    /\ rng = 0
    /\ fs = EmptyDict
    /\ genLog = <<>>
    /\ gpc = "idle"
    /\ argv = EmptyDict
    /\ fsOrder = <<>>

(***************************************************************************)
(* bench_all.py : __main__                                                 *)
(***************************************************************************)
Init ==
    /\ mode = "bench"
    /\ exists \in [{DatasetPaths[k] : k \in 1..3} -> BOOLEAN]
    /\ tick \in Ticks
    /\ BenchIdle
    /\ NativeIdle
    /\ MedianIdle
    /\ GenIdle

\* variant: the loop checks the first two paths only
MissingIdx_FirstTwo == {k \in 1..2 : ~exists[DatasetPaths[k]]}

\* indexes of the dataset paths that fail os.path.exists
MissingIdx == {k \in 1..3 : ~exists[DatasetPaths[k]]}

\* the first path of the loop that does not exist
FirstMissing == DatasetPaths[CHOOSE k \in MissingIdx : \A j \in MissingIdx : k <= j]

\* variant: __main__ catches the exception and goes on with the next engine
Propagate_Isolated(e) == "finish"

\* pc after an exception leaves bench function e: __main__ has no handler
Propagate(e) == "crashed"

\* an exception leaves the bench function of engine e uncaught
EngineRaises(e) ==
    /\ pc' = Propagate(e)
    /\ failedEngine' = e
    /\ exitStatus' = 1

\* for path in [...]: if not os.path.exists(path): print; sys.exit(1)
DatasetMissing ==
    /\ mode = "bench" /\ pc = "check"
    /\ MissingIdx # {}
    /\ reported' = FirstMissing
    /\ exitStatus' = 1
    /\ pc' = "exit"
    /\ UNCHANGED <<mode, exists, tick, now, engine, qi, phase, i, times, ms,
                   res, results, started, failedEngine, summary, saved,
                   callLog, nativeVars, medianVars, genVars>>

\* the loop finds every dataset and __main__ goes on to bench_duckdb()
DatasetsPresent ==
    /\ mode = "bench" /\ pc = "check"
    /\ MissingIdx = {}
    /\ pc' = "start"
    /\ engine' = "duckdb"
    /\ UNCHANGED <<mode, exists, tick, now, qi, phase, i, times, ms, res,
                   results, started, failedEngine, reported, exitStatus,
                   summary, saved, callLog, nativeVars, medianVars, genVars>>

(***************************************************************************)
(* bench_duckdb / bench_polars                                             *)
(***************************************************************************)
SqlEngines == {"duckdb", "polars"}

\* one timed or untimed call of the operation: advances the clock
\* t0 = perf_counter(); op(); (perf_counter() - t0)
Elapsed(e, q, n) == PerfCounter(now + Cost(e, q, n)) - PerfCounter(now)

\* import, connect, load the group-by CSV, res = {}
SqlLoad ==
    /\ mode = "bench" /\ pc = "start" /\ engine \in SqlEngines
    /\ started' = Append(started, engine)
    /\ \/ /\ pc' = "run"
          /\ qi' = 1 /\ phase' = "warm" /\ i' = 0
          /\ res' = EmptyDict
          /\ UNCHANGED <<failedEngine, exitStatus>>
       \/ /\ EngineRaises(engine)
          /\ UNCHANGED <<qi, phase, i, res>>
    /\ UNCHANGED <<mode, exists, tick, now, engine, times, ms, results,
                   reported, summary, saved, callLog, nativeVars, medianVars,
                   genVars>>

\* for _ in range(N_WARMUP): op()      then      times = []
SqlWarmup ==
    /\ mode = "bench" /\ pc = "run" /\ engine \in SqlEngines
    /\ phase = "warm" /\ i < N_WARMUP
    /\ LET q == QUERIES[qi]
           log == IF i = 0 THEN <<>> ELSE callLog
           n == Len(log) + 1
       IN  \/ /\ now' = now + Cost(engine, q, n)
              /\ callLog' = Append(log, [phase |-> "warm", dur |-> Elapsed(engine, q, n)])
              /\ IF i + 1 = N_WARMUP
                 THEN phase' = "measure" /\ i' = 0 /\ times' = <<>>
                 ELSE phase' = phase /\ i' = i + 1 /\ times' = times
              /\ UNCHANGED <<pc, failedEngine, exitStatus>>
           \/ /\ EngineRaises(engine)
              /\ UNCHANGED <<now, callLog, phase, i, times>>
    /\ UNCHANGED <<mode, exists, tick, engine, qi, ms, res, results, started,
                   reported, summary, saved, nativeVars, medianVars, genVars>>

\* for _ in range(n_iter): t0 = perf_counter(); op(); times.append(...)
SqlMeasure ==
    /\ mode = "bench" /\ pc = "run" /\ engine \in SqlEngines
    /\ phase = "measure" /\ i < NIter(QUERIES[qi])
    /\ LET q == QUERIES[qi]
           n == Len(callLog) + 1
           d == Elapsed(engine, q, n)
       IN  \/ /\ now' = now + Cost(engine, q, n)
              /\ times' = Append(times, d)
              /\ callLog' = Append(callLog, [phase |-> "measure", dur |-> d])
              /\ i' = i + 1
              /\ pc' = IF i + 1 = NIter(q) THEN "report" ELSE pc
              /\ UNCHANGED <<failedEngine, exitStatus>>
           \/ /\ EngineRaises(engine)
              /\ UNCHANGED <<now, times, callLog, i>>
    /\ UNCHANGED <<mode, exists, tick, engine, qi, phase, ms, res, results,
                   started, reported, summary, saved, nativeVars, medianVars,
                   genVars>>

\* ms = median(times); print; return ms;   res[q] = ms
SqlReport ==
    /\ mode = "bench" /\ pc = "report" /\ engine \in SqlEngines
    /\ ms' = median(times)
    /\ res' = Put(res, QUERIES[qi], median(times))
    /\ pc' = "returned"
    /\ UNCHANGED <<mode, exists, tick, now, engine, qi, phase, i, times,
                   results, started, failedEngine, reported, exitStatus,
                   summary, saved, callLog, nativeVars, medianVars, genVars>>

\* the statement after res[q] = ...: the next query, the join load, or the end
Advance ==
    /\ mode = "bench" /\ pc = "returned"
    /\ IF qi = Len(QUERIES)
       THEN pc' = "finish" /\ UNCHANGED <<qi, phase, i>>
       ELSE /\ qi' = qi + 1 /\ phase' = "warm" /\ i' = 0
            /\ pc' = IF QueryKind(QUERIES[qi + 1]) = "join" THEN "load_join"
                     ELSE IF engine = "teide" THEN "td_graph_new" ELSE "run"
    /\ failed' = FALSE
    /\ UNCHANGED <<mode, exists, tick, now, engine, times, ms, res, results,
                   started, failedEngine, reported, exitStatus, summary, saved,
                   callLog, tables, graph, root, r, outstanding, nOwnedExec,
                   nRelease, badRelease, sym, arena, raising, failSampled,
                   nativeLog, opLog, medianVars, genVars>>

\* load the join CSVs x and small
SqlLoadJoin ==
    /\ mode = "bench" /\ pc = "load_join" /\ engine \in SqlEngines
    /\ \/ pc' = "run" /\ UNCHANGED <<failedEngine, exitStatus>>
       \/ EngineRaises(engine)
    /\ UNCHANGED <<mode, exists, tick, now, engine, qi, phase, i, times, ms,
                   res, results, started, reported, summary, saved, callLog,
                   nativeVars, medianVars, genVars>>

\* the engine after e in __main__
NextEngine(e) ==
    CASE e = "duckdb" -> "polars" [] e = "polars" -> "teide" [] OTHER -> "none"

\* results[engine] = res; return res;   back in __main__
SqlFinish ==
    /\ mode = "bench" /\ pc = "finish" /\ engine \in SqlEngines
    /\ results' = Put(results, engine, res)
    /\ engine' = NextEngine(engine)
    /\ pc' = "start"
    /\ UNCHANGED <<mode, exists, tick, now, qi, phase, i, times, ms, res,
                   started, failedEngine, reported, exitStatus, summary, saved,
                   callLog, nativeVars, medianVars, genVars>>

(***************************************************************************)
(* bench_teide                                                             *)
(***************************************************************************)
\* the table graph_new is given for a query of kind k
GraphSource(k) == IF k = "join" THEN "x" ELSE "tbl"

\* the tables the nodes of a query of kind k borrow (scan, const_table, const_vec)
GraphRefs(k) == IF k = "join" THEN {"x", "y"} ELSE {"tbl"}

\* the statements after the join's finally block, in order
TeardownOrder ==
    <<"release:y", "release:x", "release:tbl", "sym_destroy", "arena_destroy_all">>

\* the log entry of root = lib.optimize(g, root) returning ret
OptimizeReturns(ret) ==
    CASE ret = "optimized" -> "optimize->optimized"
      [] ret = "null" -> "optimize->null"
      [] OTHER -> "optimize->raise"

\* the log entry of lib.execute(g, root) called with the root rt
ExecuteOn(rt) ==
    CASE rt = "optimized" -> "execute:optimized"
      [] rt = "null" -> "execute:null"
      [] rt = "built" -> "execute:built"
      [] OTHER -> "execute:none"

\* variant: the value optimize returns is dropped, `root` stays the built node
RootAfterOptimize_Discarded(built, ret) == built

\* root = lib.optimize(g, root): `root` is rebound to the returned node
RootAfterOptimize(built, ret) == ret

\* variant: no finally block, an exception leaves bench_teide at once
Finally_Missing == "crashed"

\* try: ... finally: lib.graph_free(g) -- where an exception raised inside
\* the try block continues
Finally == "td_free"

\* lib.release(t) of a loaded table
ReleaseTable(tb, t) == [tb EXCEPT ![t].releases = @ + 1]

\* lib = TeideLib(); lib.arena_init(); lib.sym_init()
TdInit ==
    /\ mode = "bench" /\ pc = "start" /\ engine = "teide"
    /\ started' = Append(started, "teide")
    /\ \/ /\ arena' = "init" /\ sym' = "init"
          /\ nativeLog' = nativeLog \o <<"arena_init", "sym_init">>
          /\ pc' = "td_load"
          /\ UNCHANGED <<failedEngine, exitStatus>>
       \/ /\ EngineRaises("teide")
          /\ UNCHANGED <<arena, sym, nativeLog>>
    /\ UNCHANGED <<mode, exists, tick, now, engine, qi, phase, i, times, ms,
                   res, results, reported, summary, saved, callLog, tables,
                   graph, root, r, outstanding, nOwnedExec, nRelease,
                   badRelease, raising, failed, failSampled, opLog,
                   medianVars, genVars>>

\* tbl = lib.read_csv(CSV_GROUPBY); res = {}
TdLoad ==
    /\ mode = "bench" /\ pc = "td_load"
    /\ \/ /\ tables' = [tables EXCEPT !["tbl"].loaded = TRUE]
          /\ nativeLog' = Append(nativeLog, "read_csv:tbl")
          /\ res' = EmptyDict
          /\ qi' = 1
          /\ pc' = "td_graph_new"
          /\ UNCHANGED <<failedEngine, exitStatus>>
       \/ /\ EngineRaises("teide")
          /\ UNCHANGED <<tables, nativeLog, res, qi>>
    /\ UNCHANGED <<mode, exists, tick, now, engine, phase, i, times, ms,
                   results, started, reported, summary, saved, callLog, graph,
                   root, r, outstanding, nOwnedExec, nRelease, badRelease, sym,
                   arena, raising, failed, failSampled, opLog, medianVars,
                   genVars>>

\* x = lib.read_csv(CSV_JOIN_X); y = lib.read_csv(CSV_JOIN_Y)
TdLoadJoin ==
    /\ mode = "bench" /\ pc = "load_join" /\ engine = "teide"
    /\ \/ /\ tables' = [tables EXCEPT !["x"].loaded = TRUE, !["y"].loaded = TRUE]
          /\ nativeLog' = nativeLog \o <<"read_csv:x", "read_csv:y">>
          /\ pc' = "td_graph_new"
          /\ UNCHANGED <<failedEngine, exitStatus>>
       \/ /\ EngineRaises("teide")            \* read_csv of x raises
          /\ UNCHANGED <<tables, nativeLog>>
       \/ /\ EngineRaises("teide")            \* read_csv of y raises
          /\ tables' = [tables EXCEPT !["x"].loaded = TRUE]
          /\ nativeLog' = Append(nativeLog, "read_csv:x")
    /\ UNCHANGED <<mode, exists, tick, now, engine, qi, phase, i, times, ms,
                   res, results, started, reported, summary, saved, callLog,
                   graph, root, r, outstanding, nOwnedExec, nRelease,
                   badRelease, sym, arena, raising, failed, failSampled,
                   opLog, medianVars, genVars>>

\* g = lib.graph_new(tbl)   (g = lib.graph_new(x) for the join); before `try`
TdGraphNew ==
    /\ mode = "bench" /\ pc = "td_graph_new"
    /\ \/ /\ graph' = [live |-> TRUE,
                       refs |-> {GraphSource(QueryKind(QUERIES[qi]))},
                       news |-> graph.news + 1, frees |-> graph.frees]
          /\ nativeLog' = Append(nativeLog, "graph_new")
          /\ opLog' = <<"graph_new">>
          /\ root' = "none" /\ r' = 0
          /\ nOwnedExec' = 0 /\ nRelease' = 0
          /\ failed' = FALSE
          /\ callLog' = <<>>
          /\ pc' = "td_build"
          /\ UNCHANGED <<failedEngine, exitStatus>>
       \/ /\ EngineRaises("teide")
          /\ UNCHANGED <<graph, nativeLog, opLog, root, r, nOwnedExec,
                         nRelease, failed, callLog>>
    /\ UNCHANGED <<mode, exists, tick, now, engine, qi, phase, i, times, ms,
                   res, results, started, reported, summary, saved, tables,
                   outstanding, badRelease, sym, arena, raising, failSampled,
                   medianVars, genVars>>

\* scan / const_table / const_vec / td_group / sort_op / join: the nodes
TdBuild ==
    /\ mode = "bench" /\ pc = "td_build"
    /\ opLog' = Append(opLog, "build")
    /\ \/ /\ graph' = [graph EXCEPT !.refs = @ \cup GraphRefs(QueryKind(QUERIES[qi]))]
          /\ root' = "built"
          /\ pc' = "td_optimize"
          /\ UNCHANGED raising
       \/ /\ raising' = TRUE
          /\ pc' = Finally
          /\ UNCHANGED <<graph, root>>
    /\ UNCHANGED <<mode, exists, tick, now, engine, qi, phase, i, times, ms,
                   res, results, started, failedEngine, reported, exitStatus,
                   summary, saved, callLog, tables, r, outstanding, nOwnedExec,
                   nRelease, badRelease, sym, arena, failed, failSampled,
                   nativeLog, medianVars, genVars>>

\* root = lib.optimize(g, root): the return value is used unchecked
TdOptimize ==
    /\ mode = "bench" /\ pc = "td_optimize"
    /\ \/ /\ root' = RootAfterOptimize(root, "optimized")
          /\ opLog' = Append(opLog, OptimizeReturns("optimized"))
          /\ pc' = "td_exec" /\ phase' = "warm" /\ i' = 0
          /\ UNCHANGED <<raising, failed>>
       \/ /\ root' = RootAfterOptimize(root, "null")
          /\ opLog' = Append(opLog, OptimizeReturns("null"))
          /\ failed' = TRUE
          /\ pc' = "td_exec" /\ phase' = "warm" /\ i' = 0
          /\ UNCHANGED raising
       \/ /\ raising' = TRUE
          /\ opLog' = Append(opLog, OptimizeReturns("raise"))
          /\ failed' = TRUE
          /\ pc' = Finally
          /\ UNCHANGED <<root, phase, i>>
    /\ UNCHANGED <<mode, exists, tick, now, engine, qi, times, ms, res,
                   results, started, failedEngine, reported, exitStatus,
                   summary, saved, callLog, tables, graph, r, outstanding,
                   nOwnedExec, nRelease, badRelease, sym, arena, failSampled,
                   nativeLog, medianVars, genVars>>

\* [t0 = perf_counter();] r = lib.execute(g, root) [; times.append(...)]
TdExecute ==
    /\ mode = "bench" /\ pc = "td_exec"
    /\ opLog' = Append(opLog, ExecuteOn(root))
    /\ LET q == QUERIES[qi]
           n == Len(callLog) + 1
           d == Elapsed("teide", q, n)
       IN  \/ \E h \in ExecReturns :
                /\ r' = h
                /\ now' = now + Cost("teide", q, n)
                /\ callLog' = Append(callLog, [phase |-> phase, dur |-> d])
                /\ times' = IF phase = "measure" THEN Append(times, d) ELSE times
                /\ outstanding' = IF h >= OwnedThreshold THEN outstanding \cup {h}
                                  ELSE outstanding
                /\ nOwnedExec' = IF h >= OwnedThreshold THEN nOwnedExec + 1
                                 ELSE nOwnedExec
                /\ failed' = (failed \/ h < OwnedThreshold)
                /\ failSampled' = (failSampled \/ (phase = "measure" /\ h < OwnedThreshold))
                /\ pc' = "td_check"
                /\ UNCHANGED raising
           \/ /\ raising' = TRUE
              /\ failed' = TRUE
              /\ pc' = Finally
              /\ UNCHANGED <<r, now, callLog, times, outstanding, nOwnedExec,
                             failSampled>>
    /\ UNCHANGED <<mode, exists, tick, engine, qi, phase, i, ms, res, results,
                   started, failedEngine, reported, exitStatus, summary, saved,
                   tables, graph, root, nRelease, badRelease, sym, arena,
                   nativeLog, medianVars, genVars>>

\* if r and r >= 32: lib.release(r)       and the loop's next iteration
TdCheck ==
    /\ mode = "bench" /\ pc = "td_check"
    /\ IF ShouldRelease(r)
       THEN /\ nRelease' = nRelease + 1
            /\ outstanding' = outstanding \ {r}
            /\ badRelease' = IF r \in outstanding THEN badRelease
                             ELSE badRelease + 1
       ELSE UNCHANGED <<nRelease, outstanding, badRelease>>
    /\ IF phase = "warm"
       THEN /\ pc' = "td_exec"
            /\ IF i + 1 = N_WARMUP
               THEN phase' = "measure" /\ i' = 0 /\ times' = <<>>
               ELSE phase' = phase /\ i' = i + 1 /\ times' = times
       ELSE /\ i' = i + 1
            /\ pc' = IF i + 1 = NIter(QUERIES[qi]) THEN "td_median" ELSE "td_exec"
            /\ UNCHANGED <<phase, times>>
    /\ UNCHANGED <<mode, exists, tick, now, engine, qi, ms, res, results,
                   started, failedEngine, reported, exitStatus, summary, saved,
                   callLog, tables, graph, root, r, nOwnedExec, sym, arena,
                   raising, failed, failSampled, nativeLog, opLog,
                   medianVars, genVars>>

\* ms = median(times); print   (the join also does res["j1"] = ms here)
TdMedian ==
    /\ mode = "bench" /\ pc = "td_median"
    /\ ms' = median(times)
    /\ res' = IF QueryKind(QUERIES[qi]) = "join"
              THEN Put(res, QUERIES[qi], median(times)) ELSE res
    /\ pc' = "td_free"
    /\ UNCHANGED <<mode, exists, tick, now, engine, qi, phase, i, times,
                   results, started, failedEngine, reported, exitStatus,
                   summary, saved, callLog, nativeVars, medianVars, genVars>>

\* finally: lib.graph_free(g); then the return value is stored, or the
\* exception goes on out of bench_teide
TdGraphFree ==
    /\ mode = "bench" /\ pc = "td_free"
    /\ graph' = [graph EXCEPT !.live = FALSE, !.frees = @ + 1]
    /\ nativeLog' = Append(nativeLog, "graph_free")
    /\ opLog' = Append(opLog, "graph_free")
    /\ raising' = FALSE
    /\ IF raising
       THEN EngineRaises("teide") /\ UNCHANGED res
       ELSE /\ res' = IF QueryKind(QUERIES[qi]) = "join" THEN res
                      ELSE Put(res, QUERIES[qi], ms)
            /\ pc' = "returned"
            /\ UNCHANGED <<failedEngine, exitStatus>>
    /\ UNCHANGED <<mode, exists, tick, now, engine, qi, phase, i, times, ms,
                   results, started, reported, summary, saved, callLog, tables,
                   root, r, outstanding, nOwnedExec, nRelease, badRelease, sym,
                   arena, failed, failSampled, medianVars, genVars>>

\* lib.release(y); lib.release(x); lib.release(tbl); lib.sym_destroy();
\* lib.arena_destroy_all(): one statement per step
TdTeardown ==
    /\ mode = "bench" /\ pc = "finish" /\ engine = "teide"
    /\ Len(nativeLog) > 0
    /\ \E k \in 1..Len(TeardownOrder) :
         /\ k = 1 + Cardinality({j \in 1..Len(nativeLog) :
                    \E m \in 1..Len(TeardownOrder) : nativeLog[j] = TeardownOrder[m]})
         /\ nativeLog' = Append(nativeLog, TeardownOrder[k])
         /\ CASE TeardownOrder[k] = "release:y" ->
                   tables' = ReleaseTable(tables, "y") /\ UNCHANGED <<sym, arena>>
              [] TeardownOrder[k] = "release:x" ->
                   tables' = ReleaseTable(tables, "x") /\ UNCHANGED <<sym, arena>>
              [] TeardownOrder[k] = "release:tbl" ->
                   tables' = ReleaseTable(tables, "tbl") /\ UNCHANGED <<sym, arena>>
              [] TeardownOrder[k] = "sym_destroy" ->
                   sym' = "destroyed" /\ UNCHANGED <<tables, arena>>
              [] OTHER ->
                   arena' = "destroyed" /\ UNCHANGED <<tables, sym>>
         /\ pc' = IF k = Len(TeardownOrder) THEN "td_finish" ELSE pc
    /\ UNCHANGED <<mode, exists, tick, now, engine, qi, phase, i, times, ms,
                   res, results, started, failedEngine, reported, exitStatus,
                   summary, saved, callLog, graph, root, r, outstanding,
                   nOwnedExec, nRelease, badRelease, raising, failed,
                   failSampled, opLog, medianVars, genVars>>

\* results["teide"] = res; return res;   back in __main__
TdFinish ==
    /\ mode = "bench" /\ pc = "td_finish"
    /\ results' = Put(results, "teide", res)
    /\ engine' = NextEngine("teide")
    /\ pc' = "summary"
    /\ UNCHANGED <<mode, exists, tick, now, qi, phase, i, times, ms, res,
                   started, failedEngine, reported, exitStatus, summary, saved,
                   callLog, nativeVars, medianVars, genVars>>

(***************************************************************************)
(* bench_all.py : the summary table and results.json                       *)
(***************************************************************************)
\* for label, key in queries: t, d, p = results.get(...).get(key); print(...)
SummaryRows(rs) ==
    [k \in 1..Len(QUERIES) |->
        [key |-> QUERIES[k],
         teide |-> RenderCell(Get(rs, "teide", QUERIES[k])),
         duckdb |-> RenderCell(Get(rs, "duckdb", QUERIES[k])),
         polars |-> RenderCell(Get(rs, "polars", QUERIES[k]))]]

PrintSummary ==
    /\ mode = "bench" /\ pc = "summary"
    /\ summary' = SummaryRows(results)
    /\ pc' = "save"
    /\ UNCHANGED <<mode, exists, tick, now, engine, qi, phase, i, times, ms,
                   res, results, started, failedEngine, reported, exitStatus,
                   saved, callLog, nativeVars, medianVars, genVars>>

\* with open(out_path, "w") as f: json.dump(results, f, indent=2)
SaveJson ==
    /\ mode = "bench" /\ pc = "save"
    /\ saved' = [written |-> TRUE, content |-> results]
    /\ exitStatus' = 0
    /\ pc' = "done"
    /\ UNCHANGED <<mode, exists, tick, now, engine, qi, phase, i, times, ms,
                   res, results, started, failedEngine, reported, summary,
                   callLog, nativeVars, medianVars, genVars>>

Next ==
    \/ DatasetMissing \/ DatasetsPresent
    \/ SqlLoad \/ SqlWarmup \/ SqlMeasure \/ SqlReport \/ Advance
    \/ SqlLoadJoin \/ SqlFinish
    \/ TdInit \/ TdLoad \/ TdLoadJoin \/ TdGraphNew \/ TdBuild \/ TdOptimize
    \/ TdExecute \/ TdCheck \/ TdMedian \/ TdGraphFree \/ TdTeardown
    \/ TdFinish \/ PrintSummary \/ SaveJson

Spec == Init /\ [][Next]_vars

(***************************************************************************)
(* Properties of bench_all.py                                              *)
(***************************************************************************)
\* C1: in bench_teide every execute that returns a handle >= 32 is followed
\* by exactly one release of that handle before the next execute on the graph
\* and before graph_free; a null or below-threshold value is never released;
\* at every graph_free the owned results executed equal the results released.
C1_ResultsReleased ==
    mode = "bench" =>
      /\ badRelease = 0
      /\ nRelease <= nOwnedExec
      /\ pc = "td_check" => outstanding = (IF r >= 32 THEN {r} ELSE {})
      /\ pc = "td_exec" => (outstanding = {} /\ nRelease = nOwnedExec)
      /\ pc = "td_free" => (outstanding = {} /\ nRelease = nOwnedExec)
      /\ ~graph.live => outstanding = {}

\* a graph is about to be freed after owned results (one of them the handle
\* 32 itself) and sentinel returns were executed on it
C1_Witness ==
    /\ pc = "td_free" /\ ~raising
    /\ nOwnedExec >= 2 /\ nRelease = nOwnedExec
    /\ Len(callLog) > nOwnedExec
    /\ r = 32

\* C2: each loaded table handle is released exactly once, by bench_teide and
\* not by graph_free, only after every graph that references it is freed;
\* sym_destroy and then arena_destroy_all come only after all table releases.
C2_TablesReleasedOnce ==
    mode = "bench" =>
      /\ \A t \in TableHandles :
           /\ tables[t].releases <= 1
           /\ tables[t].releases > 0 => tables[t].loaded
           /\ tables[t].releases > 0 => ~(graph.live /\ t \in graph.refs)
           /\ graph.live /\ t \in graph.refs => tables[t].loaded
      /\ sym = "destroyed" =>
           \A t \in TableHandles : tables[t].loaded => tables[t].releases = 1
      /\ arena = "destroyed" => sym = "destroyed"
      /\ (pc \in {"done", "crashed"} /\ Len(started) = 3) =>
           \A t \in TableHandles : tables[t].loaded => tables[t].releases = 1

\* C3: a failure of execute or optimize (a raised error or a null /
\* below-threshold return) is fatal for the query: no sample is recorded for
\* the failed call, no median is reported for the query, and before the
\* failure leaves bench_teide the graph is freed and, for the join, x and y
\* are released.
C3_FailureFatalAndCleaned ==
    (mode = "bench" /\ engine = "teide") =>
      /\ ~failSampled
      /\ (failed /\ pc = "returned") => QUERIES[qi] \notin DOMAIN res
      /\ (failed /\ pc = "crashed") =>
           /\ ~graph.live
           /\ QueryKind(QUERIES[qi]) = "join" =>
                (tables["x"].releases = 1 /\ tables["y"].releases = 1)

\* C4: every query of every engine runs exactly 3 untimed warm-up calls and
\* then exactly n_iter timed calls (7, and 5 for the join), one sample each;
\* the reported median is the median of exactly those samples.
C4_WarmupThenMeasured ==
    mode = "bench" =>
      /\ \A k \in 1..Len(callLog) :
           (callLog[k].phase = "warm") <=> (k <= 3)
      /\ pc = "returned" =>
           LET q == QUERIES[qi]
               n == IF q = "j1" THEN 5 ELSE 7
               v == res[q]
           IN  /\ Len(callLog) = 3 + n
               /\ Len(times) = n
               /\ \A k \in 1..n : times[k] = callLog[3 + k].dur
               /\ q \in DOMAIN res
               /\ \E k \in 1..n : times[k] = v
               /\ 2 * Cardinality({k \in 1..n : times[k] < v}) < n
               /\ 2 * Cardinality({k \in 1..n : times[k] > v}) < n

\* the native join has returned: 3 warm-ups slower than every sample, then 5
\* samples that are not all equal
C4_Witness ==
    /\ pc = "returned" /\ engine = "teide" /\ QUERIES[qi] = "j1"
    /\ \A k \in 1..3 : callLog[k].dur > res["j1"]
    /\ \E k \in 1..Len(times) : times[k] # res["j1"]

\* C6: if a dataset file is missing, the run reports the missing path and
\* exits non-zero before any engine benchmark starts, and writes no results.
C6_MissingDatasetStopsRun ==
    (mode = "bench" /\ \E p \in DOMAIN exists : ~exists[p]) =>
      /\ started = <<>>
      /\ engine = "none"
      /\ DOMAIN results = {}
      /\ summary = <<>>
      /\ ~saved.written
      /\ pc \in {"check", "exit"}
      /\ pc = "exit" => /\ exitStatus = 1
                        /\ reported \in DOMAIN exists
                        /\ ~exists[reported]

\* only the last dataset (the join's y file) is missing and the run has exited
C6_Witness ==
    /\ pc = "exit" /\ reported = "CSV_JOIN_Y"
    /\ exists["CSV_GROUPBY"] /\ exists["CSV_JOIN_X"]

\* C7: the engines run in the order DuckDB, Polars, Teide; an exception in
\* one engine's benchmark aborts the run: no later engine starts, no summary
\* is printed and results.json is not written.
C7_EngineOrderAndAbort ==
    mode = "bench" =>
      /\ \E k \in 0..3 : started = SubSeq(<<"duckdb", "polars", "teide">>, 1, k)
      /\ \A k \in 2..Len(started) : started[k - 1] \in DOMAIN results
      /\ failedEngine # "none" =>
           /\ started[Len(started)] = failedEngine
           /\ failedEngine \notin DOMAIN results
           /\ summary = <<>>
           /\ ~saved.written
           /\ exitStatus = 1
           /\ pc = "crashed"
      /\ summary # <<>> => DOMAIN results = {"duckdb", "polars", "teide"}
      /\ saved.written =>
           (summary # <<>> /\ DOMAIN saved.content = {"duckdb", "polars", "teide"})

\* Polars raised after DuckDB had finished
C7_Witness ==
    /\ failedEngine = "polars" /\ pc = "crashed"
    /\ "duckdb" \in DOMAIN results
    /\ started = <<"duckdb", "polars">>

\* C8: in the summary a missing (engine, query) entry is rendered 'N/A' and
\* 'N/A' is rendered only for missing entries: every recorded median, a
\* recorded 0 included, is rendered as a formatted duration.
C8_NAOnlyForMissing ==
    (mode = "bench" /\ summary # <<>>) =>
      \A k \in 1..Len(summary) : \A e \in {"teide", "duckdb", "polars"} :
        LET v == Get(results, e, summary[k].key)
        IN  /\ v = None => summary[k][e].unit = "N/A"
            /\ v # None => summary[k][e].unit \in {"us", "ms", "s"}

\* the positions in opLog of the calls logged as one of es
Since(es) == {j \in 1..Len(opLog) : opLog[j] \in es}

OptimizeCalls == {OptimizeReturns(v) : v \in {"optimized", "null", "raise"}}
ExecuteCalls == {ExecuteOn(v) : v \in {"optimized", "null", "built", "none"}}

\* C12: for each native query optimize is called exactly once, after all
\* nodes are built and before the first execute; every execute, warm-up and
\* measured, is issued on the root optimize returned; no node-building,
\* graph_new or optimize call comes between the first and the last execute.
C12_OptimizeOnceThenExecute ==
    mode = "bench" =>
      /\ Cardinality(Since(OptimizeCalls)) <= 1
      /\ pc \in {"td_exec", "td_check", "td_median"} =>
           Cardinality(Since(OptimizeCalls)) = 1
      /\ \A b \in Since({"build"}) : \A o \in Since(OptimizeCalls) : b < o
      /\ \A x \in Since(ExecuteCalls) :
           /\ \E o \in Since(OptimizeCalls) : \E v \in {"optimized", "null"} :
                /\ o < x
                /\ opLog[o] = OptimizeReturns(v)
                /\ opLog[x] = ExecuteOn(v)
           /\ \A y \in Since({"build"} \cup OptimizeCalls) : y < x
      /\ \A y \in Since({"build"} \cup OptimizeCalls \cup ExecuteCalls) :
           opLog[1] = "graph_new" /\ Since({"graph_new"}) = {1}

\* the join has run its 3 warm-up and 5 measured executes on the optimized
\* root, after one build and one optimize
C12_Witness ==
    /\ pc = "td_median" /\ QUERIES[qi] = "j1"
    /\ Cardinality(Since({ExecuteOn("optimized")})) = N_WARMUP + N_ITER_JOIN
    /\ Cardinality(Since({OptimizeReturns("optimized")})) = 1
    /\ Cardinality(Since({"build"})) = 1

\* the number of entries e among the first j entries of nativeLog
CountUpTo(e, j) == Cardinality({m \in 1..j : nativeLog[m] = e})

\* C13: at most one native graph is live at any time: every graph_new is
\* matched by exactly one graph_free on the normal and on the exception path,
\* the graph of one query is freed before graph_new is called for the next,
\* and no scan, optimize or execute is issued on a graph after its graph_free.
C13_OneGraphLive ==
    mode = "bench" =>
      /\ \A j \in 1..Len(nativeLog) :
           CountUpTo("graph_new", j) - CountUpTo("graph_free", j) \in {0, 1}
      /\ graph.news = CountUpTo("graph_new", Len(nativeLog))
      /\ graph.frees = CountUpTo("graph_free", Len(nativeLog))
      /\ graph.live <=> graph.news = graph.frees + 1
      /\ pc = "td_graph_new" => ~graph.live
      /\ pc \in {"returned", "load_join", "finish", "td_finish", "summary",
                 "save", "done", "crashed", "exit"} => graph.news = graph.frees
      /\ opLog # <<>> =>
           /\ Since({"graph_new"}) = {1}
           /\ \A j \in Since({"graph_free"}) : j = Len(opLog)
           /\ graph.live <=> opLog[Len(opLog)] # "graph_free"
      /\ opLog = <<>> => ~graph.live

\* the second query's execute raised after earlier executes on its graph, and
\* bench_teide was left with both graphs freed
C13_Witness ==
    /\ pc = "crashed" /\ engine = "teide"
    /\ graph.news = 2 /\ graph.frees = 2
    /\ Cardinality(Since(ExecuteCalls)) >= 2
    /\ opLog[Len(opLog)] = "graph_free"

\* bench_all.py runs on: a step that is possible is eventually taken
SpecFair == Init /\ [][Next]_vars /\ WF_vars(Next)

\* the process-wide calls are made once each and in order: arena_init and
\* sym_init first, sym_destroy and arena_destroy_all last, every table and
\* graph call in between
NativeLifecycleOrdered ==
    mode = "bench" =>
      /\ \A e \in {"arena_init", "sym_init", "sym_destroy", "arena_destroy_all"} :
           CountUpTo(e, Len(nativeLog)) <= 1
      /\ nativeLog # <<>> =>
           /\ Len(nativeLog) >= 2
           /\ nativeLog[1] = "arena_init" /\ nativeLog[2] = "sym_init"
      /\ \A j \in 1..Len(nativeLog) :
           /\ nativeLog[j] = "sym_destroy" =>
                \A m \in (j + 1)..Len(nativeLog) : nativeLog[m] = "arena_destroy_all"
           /\ nativeLog[j] = "arena_destroy_all" =>
                (j = Len(nativeLog) /\ nativeLog[j - 1] = "sym_destroy")
      /\ (arena = "init") <=> (CountUpTo("arena_init", Len(nativeLog)) = 1
                                /\ CountUpTo("arena_destroy_all", Len(nativeLog)) = 0)
      /\ (sym = "init") <=> (CountUpTo("sym_init", Len(nativeLog)) = 1
                              /\ CountUpTo("sym_destroy", Len(nativeLog)) = 0)
      /\ (arena = "destroyed") <=> CountUpTo("arena_destroy_all", Len(nativeLog)) = 1
      /\ (sym = "destroyed") <=> CountUpTo("sym_destroy", Len(nativeLog)) = 1
      /\ pc \in {"td_load", "td_graph_new", "td_build", "td_optimize", "td_exec",
                 "td_check", "td_median", "td_free"} =>
           (arena = "init" /\ sym = "init")
      /\ graph.live => (arena = "init" /\ sym = "init")
      /\ sym = "destroyed" =>
           (pc \in {"finish", "td_finish", "summary", "save", "done"} /\ ~graph.live)
      /\ arena = "destroyed" => pc \in {"td_finish", "summary", "save", "done"}

\* C14: in every execution of bench_teide the process-wide native state is
\* initialized exactly once at the start (arena_init, then sym_init, before
\* any table load or graph operation) and torn down exactly once at the end
\* (sym_destroy, then arena_destroy_all, after the last graph and table
\* operation); no native call is made before the initialization or after the
\* teardown; every execution that initialized eventually tears down.
C14_InitOnceTeardownOnce ==
    /\ []NativeLifecycleOrdered
    /\ (arena = "init") ~> (sym = "destroyed" /\ arena = "destroyed")

(***************************************************************************)
(* median as a pure function                                               *)
(***************************************************************************)
MaxLen == 4
MaxVal == 4

\* the non-empty duration lists of length at most MaxLen over 1..MaxVal
DurationLists == UNION {[1..n -> 1..MaxVal] : n \in 1..MaxLen}

InitMedian ==
    /\ mode = "median"
    /\ lst \in DurationLists
    /\ medOut = None
    /\ exists = [p \in {DatasetPaths[k] : k \in 1..3} |-> TRUE]
    /\ tick = 1
    /\ BenchIdle
    /\ NativeIdle
    /\ GenIdle

\* medOut = median(lst)
ApplyMedian ==
    /\ mode = "median" /\ medOut = None
    /\ medOut' = median(lst)
    /\ UNCHANGED <<mode, lst, benchVars, nativeVars, genVars>>

NextMedian == ApplyMedian

SpecMedian == InitMedian /\ [][NextMedian]_vars

\* C5: for a non-empty list median returns the exact middle of the sorted
\* list when the count is odd and the lower of the two middle elements when
\* it is even: the element of rank (n + 1) div 2.
C5_LowerMedian ==
    (mode = "median" /\ medOut # None) =>
      LET n == Len(lst)
          rank == (n + 1) \div 2
      IN  /\ \E k \in 1..n : lst[k] = medOut
          /\ Cardinality({k \in 1..n : lst[k] < medOut}) < rank
          /\ Cardinality({k \in 1..n : lst[k] <= medOut}) >= rank

(***************************************************************************)
(* Dataset generators: gen/generate_data.py and gen/generate_join.py       *)
(*                                                                         *)
(* The Mersenne Twister is a generator with RngMod states; a path is       *)
(* [dir, file], each a name built from its parts; a CSV cell is the number *)
(* drawn (0 for the empty NA cell), before its text formatting.            *)
(***************************************************************************)
RngMod == 8
MaxRows == 2
MaxCalls == 2

\* the state random.seed(seed) leaves
SeedState(seed) == (3 * seed + 1) % RngMod

\* variant: the generator is not reseeded
Reseed_Missing(st, seed) == st

\* random.seed(seed), called in state st
Reseed(st, seed) == SeedState(seed)

\* one step of the generator
RandStep(st) == (5 * st + 3) % RngMod

\* F applied to the value of x (x is evaluated once)
Bind(x, F(_)) == CHOOSE y \in {F(v) : v \in {x}} : TRUE

\* a draw below n (n >= 1): the new state and a value in 0..n-1
Draw(st, n) ==
    Bind(RandStep(st), LAMBDA s2 : [st |-> s2, v |-> (s2 * n) \div RngMod])

\* a // b  (floor division; a zero divisor is handled by the caller)
FloorDiv(a, b) == IF b > 0 THEN a \div b ELSE (0 - a) \div (0 - b)

Max(a, b) == IF a >= b THEN a ELSE b

\* random.choice over n values / random.randint(1, n): raises when n < 1
Choice(st, n) ==
    IF n < 1 THEN [ok |-> FALSE, st |-> st, v |-> 0]
    ELSE Bind(Draw(st, n), LAMBDA d : [ok |-> TRUE, st |-> d.st, v |-> d.v + 1])

\* "" if random.random() < 0.5 else random.choice(values)   (NA rows only)
MaybeChoice(st, n, naRow) ==
    IF naRow
    THEN Bind(Draw(st, 2), LAMBDA c :
              IF c.v = 0 THEN [ok |-> TRUE, st |-> c.st, v |-> 0]
              ELSE Choice(c.st, n))
    ELSE Choice(st, n)

\* the cells drawn one after another from ranges of the given sizes
RECURSIVE DrawFields(_, _, _)
DrawFields(st, sizes, acc) ==
    IF sizes = <<>> THEN [ok |-> TRUE, st |-> st, row |-> acc]
    ELSE Bind(Choice(st, Head(sizes)), LAMBDA c :
              IF ~c.ok THEN [ok |-> FALSE, st |-> c.st, row |-> acc]
              ELSE DrawFields(c.st, Tail(sizes), Append(acc, c.v)))

\* round(random.uniform(0, 100), 6) appended to a drawn row
WithUniform(f) ==
    Bind(f, LAMBDA g :
         IF ~g.ok THEN g
         ELSE Bind(Draw(g.st, 100), LAMBDA d :
                   [ok |-> TRUE, st |-> d.st, row |-> Append(g.row, d.v)]))

\* one row of generate_h2oai_groupby: on an NA row (na_pct > 0 and
\* randint(1, 100) <= na_pct) id1 and id2 may be empty
GroupbyRow(st, k, nh, na) ==
    Bind(IF na > 0 THEN Draw(st, 100) ELSE [st |-> st, v |-> 100], LAMBDA pre :
    Bind(MaybeChoice(pre.st, k, na > 0 /\ pre.v + 1 <= na), LAMBDA a1 :
         IF ~a1.ok THEN [ok |-> FALSE, st |-> a1.st, row |-> <<>>]
         ELSE
    Bind(MaybeChoice(a1.st, k, na > 0 /\ pre.v + 1 <= na), LAMBDA a2 :
         IF ~a2.ok THEN [ok |-> FALSE, st |-> a2.st, row |-> <<>>]
         ELSE WithUniform(DrawFields(a2.st, <<nh, k, k, nh, 5, 15>>,
                                     <<a1.v, a2.v>>)))))

\* the row loop of generate_h2oai_groupby: rows written until one raises
RECURSIVE GroupbyRows(_, _, _, _, _, _)
GroupbyRows(st, n, k, nh, na, acc) ==
    IF n <= 0 THEN [ok |-> TRUE, st |-> st, rows |-> acc]
    ELSE Bind(GroupbyRow(st, k, nh, na), LAMBDA row :
              IF ~row.ok THEN [ok |-> FALSE, st |-> row.st, rows |-> acc]
              ELSE GroupbyRows(row.st, n - 1, k, nh, na, Append(acc, row.row)))

\* the row loops of generate_h2oai_join: row i is [i % 100 + 1, ..., uniform]
RECURSIVE JoinRows(_, _, _, _)
JoinRows(st, idx, n, acc) ==
    IF idx >= n THEN [ok |-> TRUE, st |-> st, rows |-> acc]
    ELSE Bind(Draw(st, 100), LAMBDA d :
              JoinRows(d.st, idx + 1, n, Append(acc, <<(idx % 100) + 1, d.v>>)))

\* the row loops of generate_h2oai_join_data: randint(1, k), randint(1, n // k)
RECURSIVE JoinDataRows(_, _, _, _, _)
JoinDataRows(st, left, n, k, acc) ==
    IF left <= 0 THEN [ok |-> TRUE, st |-> st, rows |-> acc]
    ELSE Bind(WithUniform(DrawFields(st,
                  <<k, k, IF k = 0 THEN 0 ELSE FloorDiv(n, k),
                    k, k, IF k = 0 THEN 0 ELSE FloorDiv(n, k)>>, <<>>)),
              LAMBDA row :
              IF ~row.ok THEN [ok |-> FALSE, st |-> row.st, rows |-> acc]
              ELSE JoinDataRows(row.st, left - 1, n, k, Append(acc, row.row)))

(***************************************************************************)
(* names, paths and the file system                                        *)
(***************************************************************************)
NoTok == [form |-> "none", num |-> 0]
NATok == [form |-> "NA", num |-> 0]
Sci(e) == [form |-> "sci", num |-> e]
Lit(n) == [form |-> "lit", num |-> n]

\* n_to_scientific(n): "1e<exp>" or str(n)
n_to_scientific(n) ==
    IF n >= 1000000000 THEN Sci(9)
    ELSE IF n >= 100000000 THEN Sci(8)
    ELSE IF n >= 10000000 THEN Sci(7)
    ELSE IF n >= 1000000 THEN Sci(6)
    ELSE IF n >= 100000 THEN Sci(5)
    ELSE IF n >= 10000 THEN Sci(4)
    ELSE IF n >= 1000 THEN Sci(3)
    ELSE IF n >= 100 THEN Sci(2)
    ELSE IF n >= 10 THEN Sci(1)
    ELSE Lit(n)

\* a directory or file name "<prefix>_<a>_<b>_<na>_<seed><ext>"
Name(prefix, a, b, na, seed, ext) ==
    [prefix |-> prefix, a |-> a, b |-> b, na |-> na, seed |-> seed, ext |-> ext]

NoName == Name("", NoTok, NoTok, 0, 0, "")
ManifestName == Name("manifest", NoTok, NoTok, 0, 0, "json")
CustomDir == Name("out", NoTok, NoTok, 0, 0, "")
CustomCsv == Name("data", NoTok, NoTok, 0, 0, "csv")

DirPath(d) == [dir |-> d, file |-> NoName]
FilePath(d, f) == [dir |-> d, file |-> f]

DirEntry == [kind |-> "dir", hdr |-> "", rows |-> <<>>]
CsvFile(hdr, rows) == [kind |-> "csv", hdr |-> hdr, rows |-> rows]
JsonFile == [kind |-> "json", hdr |-> "manifest", rows |-> <<>>]

\* the state of a generator run: file system, creation order, generator state
Run(f, order, st, ok) == [fs |-> f, order |-> order, st |-> st, ok |-> ok]

\* d.mkdir(parents=True, exist_ok=True)
Mkdir(run, d) ==
    Bind(run, LAMBDA u :
         Run(IF DirPath(d) \in DOMAIN u.fs THEN u.fs
             ELSE Put(u.fs, DirPath(d), DirEntry),
             Append(u.order, DirPath(d)), u.st, u.ok))

\* with open(p, "w") as f: header, then the rows written before any raise
WriteCsv(run, p, hdr, rows) ==
    Bind(run, LAMBDA u : Bind(rows, LAMBDA w :
         Run(Put(u.fs, p, CsvFile(hdr, w.rows)), Append(u.order, p), w.st, w.ok)))

\* with open(dir / "manifest.json", "w") as f: json.dump(manifest, f)
WriteManifest(run, d) ==
    Bind(run, LAMBDA u :
         Run(Put(u.fs, FilePath(d, ManifestName), JsonFile),
             Append(u.order, FilePath(d, ManifestName)), u.st, u.ok))

(***************************************************************************)
(* the three generator functions                                           *)
(***************************************************************************)
\* generate_h2oai_groupby(output_path, n_rows, k, na_pct, seed):
\* random.seed; n_high = max(n_rows // k, k); mkdir; the header and the rows
generate_h2oai_groupby(run, path, n, k, na, seed) ==
    Bind(run, LAMBDA u : Bind(Reseed(u.st, seed), LAMBDA st0 :
         IF k = 0 THEN Run(u.fs, u.order, st0, FALSE)
         ELSE WriteCsv(Mkdir(Run(u.fs, u.order, st0, TRUE), path.dir),
                       path, "groupby",
                       GroupbyRows(st0, n, k, Max(FloorDiv(n, k), k), na, <<>>))))

\* generate_h2oai_join(output_dir, n_rows, seed): random.seed; mkdir;
\* J1_{n_rows}_NA_0_0.csv and then J1_{n_rows}_{n_rows}_0_0.csv
generate_h2oai_join(run, d, n, seed) ==
    Bind(run, LAMBDA u : Bind(Reseed(u.st, seed), LAMBDA st0 :
    Bind(WriteCsv(Mkdir(Run(u.fs, u.order, st0, TRUE), d),
                  FilePath(d, Name("J1", Lit(n), NATok, 0, 0, "csv")),
                  "join_x", JoinRows(st0, 0, n, <<>>)), LAMBDA x :
         WriteCsv(x, FilePath(d, Name("J1", Lit(n), Lit(n), 0, 0, "csv")),
                  "join_y", JoinRows(x.st, 0, n, <<>>)))))

\* generate_h2oai_join_data(output_dir, n, k, seed): random.seed(seed); mkdir;
\* J1_1e7_NA_0_0.csv; random.seed(seed + 1); J1_1e7_1e7_0_0.csv
generate_h2oai_join_data(run, d, n, k, seed) ==
    Bind(run, LAMBDA u : Bind(Reseed(u.st, seed), LAMBDA st0 :
    Bind(WriteCsv(Mkdir(Run(u.fs, u.order, st0, TRUE), d),
                  FilePath(d, Name("J1", Sci(7), NATok, 0, 0, "csv")),
                  "join_x", JoinDataRows(st0, n, n, k, <<>>)), LAMBDA x :
         IF ~x.ok THEN x
         ELSE WriteCsv(x, FilePath(d, Name("J1", Sci(7), Sci(7), 0, 0, "csv")),
                       "join_y",
                       JoinDataRows(Reseed(x.st, seed + 1), n, n, k, <<>>)))))

(***************************************************************************)
(* generate_data.py : main()                                               *)
(***************************************************************************)
\* a command-line string: "1e<num>", the decimal <num>, or not a number
Str1e(e) == [form |-> "1e", num |-> e]
StrDec(n) == [form |-> "dec", num |-> n]
StrJunk == [form |-> "junk", num |-> 0]

RECURSIVE Pow10(_)
Pow10(e) == IF e <= 0 THEN 1 ELSE 10 * Pow10(e - 1)

\* parse_sci(s): int(10 ** int(s[2:])) or int(float(s)); ValueError otherwise
parse_sci(s) ==
    IF s.form = "1e"
    THEN [ok |-> TRUE, v |-> IF s.num >= 0 THEN Pow10(s.num) ELSE 0]
    ELSE IF s.form = "dec" THEN [ok |-> TRUE, v |-> s.num]
    ELSE [ok |-> FALSE, v |-> 0]

\* argparse type=int: only a decimal integer is accepted
ArgparseInt(s) == s.form = "dec"

\* if args.type in ("groupby", "all"): mkdir, generate, manifest
MainGroupby(run, a, n, k, na, seed) ==
    Bind(IF a.output = "custom" THEN CustomDir
         ELSE Name("G1", n_to_scientific(n), n_to_scientific(k), na, seed, ""),
         LAMBDA dir :
    Bind(generate_h2oai_groupby(Mkdir(run, dir),
             FilePath(dir, Name("G1", n_to_scientific(n), n_to_scientific(k),
                                na, seed, "csv")),
             n, k, na, seed), LAMBDA gen :
         IF ~gen.ok THEN gen ELSE WriteManifest(gen, dir)))

\* if args.type in ("join", "all"): mkdir, generate, manifest
MainJoin(run, a, n, seed) ==
    Bind(IF a.output = "custom" THEN CustomDir
         ELSE Name("J1", n_to_scientific(n), NoTok, 0, 0, ""), LAMBDA dir :
    Bind(generate_h2oai_join(Mkdir(run, dir), dir, n, seed), LAMBDA gen :
         IF ~gen.ok THEN gen ELSE WriteManifest(gen, dir)))

\* main(): the exit ("usage_error" from argparse, "traceback" from an
\* uncaught exception, "ok") and the files left behind
MainRun(a, run) ==
    IF ~ArgparseInt(a.na) \/ ~ArgparseInt(a.seed)
    THEN [status |-> "usage_error", run |-> run]
    ELSE Bind(parse_sci(a.rows), LAMBDA pn : Bind(parse_sci(a.k), LAMBDA pk :
         IF ~pn.ok \/ ~pk.ok
         THEN [status |-> "traceback", run |-> run]
         ELSE
    Bind(IF a.type \in {"groupby", "all"}
         THEN MainGroupby(run, a, pn.v, pk.v, a.na.num, a.seed.num)
         ELSE run, LAMBDA g :
    Bind(IF g.ok /\ a.type \in {"join", "all"}
         THEN MainJoin(g, a, pn.v, a.seed.num)
         ELSE g, LAMBDA j :
         [status |-> IF j.ok THEN "ok" ELSE "traceback", run |-> j]))))

(***************************************************************************)
(* The generator process: main() once, or calls of the three functions     *)
(***************************************************************************)
Seeds == {0, 1}
NaPcts == {0, 50}
GenKs == {1, 2}

\* row counts of the join generators: the small ones and a power of ten
PowTenRows == 10
GenNs == (1..MaxRows) \cup {PowTenRows}

Argvs ==
    [rows : {Str1e(1), StrDec(2), StrDec(0), StrDec(-1), StrJunk},
     k : {Str1e(0), Str1e(1), StrDec(2), StrDec(0), StrDec(-2), StrJunk},
     na : {StrDec(0), StrDec(50)},
     seed : {StrDec(0), StrDec(1), StrJunk},
     type : {"groupby", "join", "all"},
     output : {"default", "custom"}]

InitGen ==
    /\ mode = "gen"
    /\ rng \in {0, RngMod - 1}
    /\ fs = EmptyDict
    /\ genLog = <<>>
    /\ gpc = "idle"
    /\ argv = EmptyDict
    /\ fsOrder = <<>>
    /\ exists = [p \in {DatasetPaths[k] : k \in 1..3} |-> TRUE]
    /\ tick = 1
    /\ BenchIdle
    /\ NativeIdle
    /\ MedianIdle

\* the files a call wrote, with their content
Written(run) ==
    LET ps == {run.order[n] : n \in 1..Len(run.order)}
    IN  [p \in {q \in ps : run.fs[q].kind = "csv"} |-> run.fs[p]]

\* the effect of one generator call on the process
Called(fn, args, run) ==
    /\ fs' = run.fs
    /\ rng' = run.st
    /\ fsOrder' = run.order
    /\ genLog' = Append(genLog, [fn |-> fn, args |-> args, before |-> rng,
                                 ok |-> run.ok, out |-> Written(run)])
    /\ UNCHANGED <<mode, gpc, argv, benchVars, nativeVars, medianVars>>

CallGroupby ==
    /\ mode = "gen" /\ gpc = "idle" /\ Len(genLog) < MaxCalls
    /\ \E n \in 1..MaxRows, k \in GenKs, na \in NaPcts, seed \in Seeds :
         \E run \in {generate_h2oai_groupby(Run(fs, <<>>, rng, TRUE),
                                            FilePath(CustomDir, CustomCsv),
                                            n, k, na, seed)} :
           Called("groupby", <<n, k, na, seed>>, run)

CallJoin ==
    /\ mode = "gen" /\ gpc = "idle" /\ Len(genLog) < MaxCalls
    /\ \E n \in GenNs, seed \in Seeds :
         \E run \in {generate_h2oai_join(Run(fs, <<>>, rng, TRUE), CustomDir,
                                         n, seed)} :
           Called("join", <<n, seed>>, run)

CallJoinData ==
    /\ mode = "gen" /\ gpc = "idle" /\ Len(genLog) < MaxCalls
    /\ \E n \in GenNs, k \in GenKs, seed \in Seeds :
         \E run \in {generate_h2oai_join_data(Run(fs, <<>>, rng, TRUE),
                                              CustomDir, n, k, seed)} :
           Called("join_data", <<n, k, seed>>, run)

\* python generate_data.py <argv>
Main ==
    /\ mode = "gen" /\ gpc = "idle" /\ genLog = <<>>
    /\ \E a \in Argvs : \E m \in {MainRun(a, Run(fs, <<>>, rng, TRUE))} :
             /\ argv' = a
             /\ gpc' = m.status
             /\ fs' = m.run.fs
             /\ fsOrder' = m.run.order
             /\ rng' = m.run.st
    /\ UNCHANGED <<mode, genLog, benchVars, nativeVars, medianVars>>

NextGen == CallGroupby \/ CallJoin \/ CallJoinData \/ Main

SpecGen == InitGen /\ [][NextGen]_vars

\* C9: generation is deterministic: two calls of a generator function with
\* identical arguments write identical headers and rows, whatever state the
\* random generator was left in by earlier calls.
C9_Deterministic ==
    mode = "gen" =>
      \A a, b \in 1..Len(genLog) :
        (genLog[a].fn = genLog[b].fn /\ genLog[a].args = genLog[b].args) =>
          (genLog[a].ok = genLog[b].ok /\ genLog[a].out = genLog[b].out)

\* the same group-by call (2 rows, 50% NA) made twice, the second time from
\* a different generator state, and it wrote rows
C9_Witness ==
    /\ Len(genLog) >= 2
    /\ genLog[1].fn = "groupby" /\ genLog[2].fn = "groupby"
    /\ genLog[1].args = <<2, 2, 50, 1>> /\ genLog[2].args = <<2, 2, 50, 1>>
    /\ genLog[1].before # genLog[2].before
    /\ \E p \in DOMAIN genLog[2].out : Len(genLog[2].out[p].rows) = 2

\* a row count or cardinality that is not a positive number
BadCount(s) ==
    \/ s.form = "junk"
    \/ s.form = "dec" /\ s.num <= 0
    \/ s.form = "1e" /\ s.num < 0

\* C10: a bad row-count, cardinality or seed argument is rejected at
\* argument-parse time with a user-facing message and leaves no CSV or
\* manifest file; on an accepted run the output directory is created before
\* the CSV file is opened.
C10_BadArgsRejected ==
    (mode = "gen" /\ gpc # "idle") =>
      /\ (BadCount(argv.rows) \/ BadCount(argv.k) \/ argv.seed.form = "junk") =>
           /\ gpc = "usage_error"
           /\ \A p \in DOMAIN fs : fs[p].kind = "dir"
      /\ gpc = "ok" =>
           \A n \in 1..Len(fsOrder) :
             fsOrder[n].file.ext = "csv" =>
               \E m \in 1..(n - 1) : fsOrder[m] = DirPath(fsOrder[n].dir)

\* n is a power of ten between 10 and 10^9
IsPowTen(n) == \E e \in 1..9 : Pow10(e) = n

\* the name token tok is "1e<exp>" with 10^exp = n
Encodes(tok, n) == tok.form = "sci" /\ Pow10(tok.num) = n

\* the CSV file name f encodes the row count n, and for a group-by file the
\* cardinality k when k is a power of ten
NameEncodes(f, n, k) ==
    /\ Encodes(f.a, n)
    /\ f.prefix = "J1" => (f.b = NATok \/ Encodes(f.b, n))
    /\ (f.prefix = "G1" /\ IsPowTen(k)) => Encodes(f.b, k)

\* C11: for a power-of-ten row count n (10 <= n <= 10^9) every CSV file the
\* generators write (group-by, join x, join y) is named with the token
\* "1e<exp>" with 10^exp = n, and likewise for the cardinality k.
C11_NamesEncodeCounts ==
    mode = "gen" =>
      /\ \A c \in 1..Len(genLog) :
           (genLog[c].fn \in {"join", "join_data"} /\ IsPowTen(genLog[c].args[1])) =>
             \A p \in DOMAIN genLog[c].out :
               NameEncodes(p.file, genLog[c].args[1], 0)
      /\ (gpc \in {"ok", "traceback"} /\ parse_sci(argv.rows).ok
              /\ parse_sci(argv.k).ok /\ IsPowTen(parse_sci(argv.rows).v)) =>
           \A p \in DOMAIN fs :
             fs[p].kind = "csv" =>
               NameEncodes(p.file, parse_sci(argv.rows).v, parse_sci(argv.k).v)
====
